---- MODULE Spec2Model ----
(***************************************************************************)
(* Gate geometry and per-gate crossing state machine of the navigation     *)
(* scoring plugin (vmrc_gazebo/src/navigation_scoring_plugin.cc).          *)
(*                                                                         *)
(* Number representation.  The plugin computes in doubles; the model       *)
(* computes the same quantities exactly, over the integers:                *)
(*   - world coordinates are integers; marker coordinates are even, so     *)
(*     the gate centre (left + right) / 2 is an integer point;             *)
(*   - a unit vector is held as the shortest integer vector with the same  *)
(*     direction (the zero vector stays zero, as in Vector3::Normalize);   *)
(*   - an angle a is held as the shortest integer vector (cos, sin) that   *)
(*     points in direction a, so equal angles have equal representations;  *)
(*   - a gate's width is held as its square, and a position in the gate    *)
(*     frame carries the squared length n2 of the angle vector by which    *)
(*     its x and y are scaled.  Every use of these values in the plugin    *)
(*     is a comparison, which the scaling preserves.                       *)
(* Floating-point rounding is not modelled.  The sign of a zero is, where   *)
(* atan2 reads it: atan2(+0, -0) is pi, atan2(+0, +0) is 0.  Coordinates   *)
(* and their differences are never -0; a product of +0 and a negative      *)
(* number is.                                                              *)
(***************************************************************************)
EXTENDS Integers, Sequences, FiniteSets

\* ------------------------------------------------------------------ bounds

\* The vehicle moves on the grid -MaxCoord..MaxCoord in x, 0..MaxCoord in y.
MaxCoord == 1

\* ------------------------------------------------------------- gate states

VEHICLE_BEFORE == "VEHICLE_BEFORE"
VEHICLE_AFTER == "VEHICLE_AFTER"
VEHICLE_OUTSIDE == "VEHICLE_OUTSIDE"
CROSSED == "CROSSED"
INVALID == "INVALID"

GateState == {VEHICLE_BEFORE, VEHICLE_AFTER, VEHICLE_OUTSIDE, CROSSED, INVALID}

\* ------------------------------------------------------------ vector maths

Vector3(x, y, z) == [x |-> x, y |-> y, z |-> z]

UnitZ == Vector3(0, 0, 1)

Abs(n) == IF n < 0 THEN -n ELSE n

RECURSIVE GCD(_, _)
GCD(a, b) == IF b = 0 THEN a ELSE GCD(b, a % b)

\* a - b and a + b, componentwise.
Minus(a, b) == Vector3(a.x - b.x, a.y - b.y, a.z - b.z)

Plus(a, b) == Vector3(a.x + b.x, a.y + b.y, a.z + b.z)

\* v / k, for k dividing every component exactly.
Over(v, k) == Vector3(v.x \div k, v.y \div k, v.z \div k)

\* Vector3::Cross.
Cross(a, b) ==
    Vector3(a.y * b.z - a.z * b.y, a.z * b.x - a.x * b.z, a.x * b.y - a.y * b.x)

\* The x component of a.Cross(b), a.y * b.z - a.z * b.y, is the double -0:
\* the first product is -0 and the second is +0.
CrossXNegativeZero(a, b) ==
    /\ (a.y = 0 /\ b.z < 0) \/ (b.z = 0 /\ a.y < 0)
    /\ a.z * b.y = 0
    /\ ~((a.z = 0 /\ b.y < 0) \/ (b.y = 0 /\ a.z < 0))

\* Vector3::Normalize: a vector of length zero is left as it is.
Normalize(v) ==
    LET g == GCD(GCD(Abs(v.x), Abs(v.y)), Abs(v.z))
    IN  IF g = 0 THEN v ELSE Over(v, g)

\* Vector3::Distance, squared.
Distance(a, b) ==
    LET d == Minus(a, b) IN d.x * d.x + d.y * d.y + d.z * d.z

\* atan(y / x) in the place of atan2(y, x): the angle of the direction
\* (x, y) or of its opposite, whichever has a cosine that is not negative.
Atan(y, x) ==
    LET g == GCD(Abs(x), Abs(y))
    IN  IF g = 0 THEN [cos |-> 1, sin |-> 0]
        ELSE IF x < 0 THEN [cos |-> (-x) \div g, sin |-> (-y) \div g]
        ELSE [cos |-> x \div g, sin |-> y \div g]

\* atan2(y, x): the angle of the direction (x, y); atan2(0, 0) is the angle 0.
Atan2(y, x) ==
    LET g == GCD(Abs(x), Abs(y))
    IN  IF g = 0 THEN [cos |-> 1, sin |-> 0]
                 ELSE [cos |-> x \div g, sin |-> y \div g]

\* atan2(y, -0): pi for y = +0, and as atan2(y, +0) for any other y.
Atan2NegativeZeroX(y) ==
    IF y = 0 THEN [cos |-> -1, sin |-> 0] ELSE Atan2(y, 0)

\* Pose::Set(pos, Vector3(0, 0, yaw)): a position and a rotation about the
\* vertical axis by yaw.
Pose(pos, yaw) == [pos |-> pos, rot |-> yaw]

\* Quaternion::GetInverse of a rotation about the vertical axis.
GetInverse(rot) == [cos |-> rot.cos, sin |-> -rot.sin]

\* Quaternion::RotateVector for a rotation about the vertical axis.  x and y
\* of the result are scaled by the length of the angle vector, whose square
\* is n2; z is not changed by the rotation.
RotateVector(rot, v) ==
    [x  |-> rot.cos * v.x - rot.sin * v.y,
     y  |-> rot.sin * v.x + rot.cos * v.y,
     z  |-> v.z,
     n2 |-> rot.cos * rot.cos + rot.sin * rot.sin]

\* ------------------------------------------------------------------ world

\* The marker models of the world, and the positions each can take.  Marker
\* coordinates are even.  m1 can coincide with m2 and can pass to its other
\* side; m3 makes a diagonal gate with m4 and can move to right above m4.
Markers == {"m1", "m2", "m3", "m4", "m5", "m6"}

MarkerTrack ==
    [m \in Markers |->
        CASE m = "m1" -> {Vector3(0, 2, 0), Vector3(0, 0, 0), Vector3(0, -2, 0)}
          [] m = "m2" -> {Vector3(0, 0, 0)}
          [] m = "m3" -> {Vector3(2, 2, 0), Vector3(-2, -2, 2)}
          [] m = "m4" -> {Vector3(-2, -2, 0)}
          [] m = "m5" -> {Vector3(-2, 0, 0)}
          [] m = "m6" -> {Vector3(2, 0, 0)}]

\* The <gates> element of the plugin's SDF: the gates of the course, in
\* course order, each with the names of its left and right markers.
Course ==
    << [left_marker |-> "m1", right_marker |-> "m2"],
       [left_marker |-> "m3", right_marker |-> "m4"] >>

\* The <gates> element of a second plugin instance of the same world: the
\* gates of Course in the opposite order, with one more gate between them.
TwinCourse ==
    << [left_marker |-> "m3", right_marker |-> "m4"],
       [left_marker |-> "m5", right_marker |-> "m6"],
       [left_marker |-> "m1", right_marker |-> "m2"] >>

\* The positions the vehicle can take.
XCoords == -MaxCoord..MaxCoord

YCoords == 0..MaxCoord

Altitudes == {0, 1}

VehiclePositions ==
    {Vector3(x, y, z) : x \in XCoords, y \in YCoords, z \in Altitudes}

VARIABLES
    markerPose,     \* world position of each marker model
    vehicleInWorld, \* world->GetModel(vehicleName) finds the vehicle model
    vehiclePose,    \* world position of the vehicle model (once in the world)
    vehicleModel,   \* this->vehicleModel is set
    gates,          \* this->gates
    twin,           \* the second plugin instance: [vehicleModel, gates]
    calls,          \* Update calls since the world last changed (at most 2)
    matched,        \* per gate of this->gates: the latest values IsPoseInGate
                    \* returned for it are the first matched[i] of Pattern
    retreated       \* per gate of this->gates: the latest values IsPoseInGate
                    \* returned for it are the first retreated[i] of Retreat

vars ==
    <<markerPose, vehicleInWorld, vehiclePose, vehicleModel, gates, twin, calls,
      matched, retreated>>

\* ------------------------------------------------------------------- Gate

\* Gate::Update measuring the width on the ground plane, without the
\* vertical component of the markers' positions.
GateUpdatePlanarWidth(gate, markers) ==
    LET leftMarkerPose  == markers[gate.leftMarkerModel]
        rightMarkerPose == markers[gate.rightMarkerModel]
        v1     == Normalize(Minus(leftMarkerPose, rightMarkerPose))
        v2     == Cross(UnitZ, v1)
        middle == Over(Plus(leftMarkerPose, rightMarkerPose), 2)
        yaw    == IF CrossXNegativeZero(UnitZ, v1)
                  THEN Atan2NegativeZeroX(v2.y)
                  ELSE Atan2(v2.y, v2.x)
        ground(p) == Vector3(p.x, p.y, 0)
    IN  [gate EXCEPT !.pose  = Pose(middle, yaw),
                     !.width = Distance(ground(leftMarkerPose),
                                        ground(rightMarkerPose))]

\* Gate::Update: the gate's pose and width from its markers' positions.  (The
\* early return of line 36 is never taken: AddGate makes a gate only from
\* two models it found in the world.)
GateUpdate(gate, markers) ==
    LET leftMarkerPose  == markers[gate.leftMarkerModel]
        rightMarkerPose == markers[gate.rightMarkerModel]
        v1     == Normalize(Minus(leftMarkerPose, rightMarkerPose))
        v2     == Cross(UnitZ, v1)
        middle == Over(Plus(leftMarkerPose, rightMarkerPose), 2)
        yaw    == IF CrossXNegativeZero(UnitZ, v1)
                  THEN Atan2NegativeZeroX(v2.y)
                  ELSE Atan2(v2.y, v2.x)
    IN  [gate EXCEPT !.pose  = Pose(middle, yaw),
                     !.width = Distance(leftMarkerPose, rightMarkerPose)]

\* The gate's member initialiser of state (declared in the plugin's header).
InitialState == VEHICLE_OUTSIDE

\* Gate::Gate.
Gate(leftMarkerModel, rightMarkerModel, markers) ==
    GateUpdate([leftMarkerModel  |-> leftMarkerModel,
                rightMarkerModel |-> rightMarkerModel,
                pose  |-> Pose(Vector3(0, 0, 0), Atan2(0, 1)),
                width |-> 0,
                state |-> InitialState],
               markers)

\* The vehicle's position in the gate's frame.
RobotLocalPosition(gate, robotWorldPose) ==
    RotateVector(GetInverse(gate.pose.rot), Minus(robotWorldPose, gate.pose.pos))

\* fabs(robotLocalPosition.y) <= width / 2.0, on the scaled values:
\* 4 * y^2 <= width^2 * n2.
WithinWidth(local, width) == 4 * local.y * local.y <= width * local.n2

\* IsPoseInGate with the gate plane itself on the approach side.
IsPoseInGateStrict(gate, robotWorldPose) ==
    LET robotLocalPosition == RobotLocalPosition(gate, robotWorldPose)
    IN  IF WithinWidth(robotLocalPosition, gate.width)
        THEN IF robotLocalPosition.x > 0 THEN VEHICLE_AFTER
                                         ELSE VEHICLE_BEFORE
        ELSE VEHICLE_OUTSIDE

\* Gate::IsPoseInGate.
IsPoseInGate(gate, robotWorldPose) ==
    LET robotLocalPosition == RobotLocalPosition(gate, robotWorldPose)
    IN  IF WithinWidth(robotLocalPosition, gate.width)
        THEN IF robotLocalPosition.x >= 0 THEN VEHICLE_AFTER
                                          ELSE VEHICLE_BEFORE
        ELSE VEHICLE_OUTSIDE

\* ----------------------------------------------------------------- plugin

\* ParseGates and AddGate: one gate per <gate> element, in document order.
ParseGates(course, markers) ==
    [i \in 1..Len(course) |->
        Gate(course[i].left_marker, course[i].right_marker, markers)]

\* Advance without the forward crossing: the state only tracks the
\* classification, apart from the backward transit.
AdvanceNoCrossed(state, currentState) ==
    IF currentState = VEHICLE_BEFORE /\ state = VEHICLE_AFTER THEN INVALID
    ELSE currentState

\* Advance counting a gate as crossed also when the vehicle enters its
\* forward side from outside the gate.
AdvanceCrossFromOutside(state, currentState) ==
    IF currentState = VEHICLE_AFTER
       /\ (state = VEHICLE_BEFORE \/ state = VEHICLE_OUTSIDE) THEN CROSSED
    ELSE IF currentState = VEHICLE_BEFORE /\ state = VEHICLE_AFTER THEN INVALID
    ELSE currentState

\* Advance counting a gate as invalidated also when the vehicle enters its
\* approach side from outside the gate.
AdvanceInvalidFromOutside(state, currentState) ==
    IF currentState = VEHICLE_AFTER /\ state = VEHICLE_BEFORE THEN CROSSED
    ELSE IF currentState = VEHICLE_BEFORE
            /\ (state = VEHICLE_AFTER \/ state = VEHICLE_OUTSIDE) THEN INVALID
    ELSE currentState

\* Advance keeping the gate's state where it should take the classification.
AdvanceKeepsState(state, currentState) ==
    IF currentState = VEHICLE_AFTER /\ state = VEHICLE_BEFORE THEN CROSSED
    ELSE IF currentState = VEHICLE_BEFORE /\ state = VEHICLE_AFTER THEN INVALID
    ELSE state

\* Advance keeping a gate VEHICLE_OUTSIDE when the vehicle comes back to its
\* approach side.
AdvanceOutsideSticks(state, currentState) ==
    IF currentState = VEHICLE_AFTER /\ state = VEHICLE_BEFORE THEN CROSSED
    ELSE IF currentState = VEHICLE_BEFORE /\ state = VEHICLE_AFTER THEN INVALID
    ELSE IF currentState = VEHICLE_BEFORE /\ state = VEHICLE_OUTSIDE
         THEN VEHICLE_OUTSIDE
    ELSE currentState

\* Update, lines 227-244: the state a live gate gets from its state and the
\* classification of the vehicle's pose.
Advance(state, currentState) ==
    IF currentState = VEHICLE_AFTER /\ state = VEHICLE_BEFORE THEN CROSSED
    ELSE IF currentState = VEHICLE_BEFORE /\ state = VEHICLE_AFTER THEN INVALID
    ELSE currentState

\* Ignored with one of the two tests of line 221 missing.
IgnoredCrossedOnly(gate) == gate.state = CROSSED

IgnoredInvalidOnly(gate) == gate.state = INVALID

\* Ignored with the test of line 221 missing altogether.
IgnoredNever(gate) == FALSE

\* Update, lines 220-222: gates that have been crossed or are invalid are
\* ignored.
Ignored(gate) == gate.state = CROSSED \/ gate.state = INVALID

\* UpdateGate with gate.Update() called before the test of line 221.
UpdateGateRefreshFirst(gate, markers, robotPose) ==
    LET updated == GateUpdate(gate, markers)
    IN  IF gate.state = CROSSED \/ gate.state = INVALID THEN updated
        ELSE [updated EXCEPT
                 !.state = Advance(gate.state, IsPoseInGate(updated, robotPose))]

\* Update, the body of the loop for one gate.
UpdateGate(gate, markers, robotPose) ==
    IF Ignored(gate) THEN gate
    ELSE LET updated == GateUpdate(gate, markers)
         IN  [updated EXCEPT
                 !.state = Advance(gate.state, IsPoseInGate(updated, robotPose))]

\* UpdateGatesFrom stopping at the first gate that is not CROSSED, so that
\* gates are evaluated only once the gates before them have been crossed.
RECURSIVE UpdateGatesInOrder(_, _, _, _)
UpdateGatesInOrder(gs, i, markers, robotPose) ==
    IF i > Len(gs) THEN gs
    ELSE LET next == [gs EXCEPT ![i] = UpdateGate(gs[i], markers, robotPose)]
         IN  IF next[i].state = CROSSED
             THEN UpdateGatesInOrder(next, i + 1, markers, robotPose)
             ELSE next

\* Update, the loop over this->gates from gate i on, in course order.
RECURSIVE UpdateGatesFrom(_, _, _, _)
UpdateGatesFrom(gs, i, markers, robotPose) ==
    IF i > Len(gs) THEN gs
    ELSE UpdateGatesFrom([gs EXCEPT ![i] = UpdateGate(gs[i], markers, robotPose)],
                         i + 1, markers, robotPose)

\* NavigationScoringPlugin::Update returning right after the vehicle lookup
\* in the call that finds the vehicle, and evaluating the gates from the
\* next call on.
PluginUpdateLookupOnly(p, markers, inWorld, robotPose) ==
    IF ~p.vehicleModel
    THEN [p EXCEPT !.vehicleModel = inWorld]
    ELSE [vehicleModel |-> TRUE,
          gates |-> UpdateGatesFrom(p.gates, 1, markers, robotPose)]

\* NavigationScoringPlugin::Update refreshing the geometry of the live gates
\* also in the calls in which the vehicle is not found.
PluginUpdateRefreshUnfound(p, markers, inWorld, robotPose) ==
    LET found == p.vehicleModel \/ inWorld
    IN  IF ~found
        THEN [p EXCEPT !.gates =
                 [i \in DOMAIN p.gates |->
                     IF Ignored(p.gates[i]) THEN p.gates[i]
                     ELSE GateUpdate(p.gates[i], markers)]]
        ELSE [vehicleModel |-> TRUE,
              gates |-> UpdateGatesFrom(p.gates, 1, markers, robotPose)]

\* NavigationScoringPlugin::Update on one plugin instance p, in a world
\* with the given marker positions and, when inWorld, vehicle position.
PluginUpdate(p, markers, inWorld, robotPose) ==
    LET found == p.vehicleModel \/ inWorld
    IN  IF ~found THEN p
        ELSE [vehicleModel |-> TRUE,
              gates |-> UpdateGatesFrom(p.gates, 1, markers, robotPose)]

\* ---------------------------------------------------------- specification

Init ==
    /\ markerPose \in [Markers -> UNION {MarkerTrack[m] : m \in Markers}]
    /\ \A m \in Markers : markerPose[m] \in MarkerTrack[m]
    /\ vehicleInWorld \in BOOLEAN
    /\ vehiclePose \in VehiclePositions
    /\ vehicleModel = FALSE
    /\ gates = ParseGates(Course, markerPose)
    /\ twin = [vehicleModel |-> FALSE,
               gates |-> ParseGates(TwinCourse, markerPose)]
    /\ calls = 0
    /\ matched = [i \in 1..Len(Course) |-> 0]
    /\ retreated = [i \in 1..Len(Course) |-> 0]

\* The world moves a marker model.
MoveMarker ==
    \E m \in Markers : \E p \in MarkerTrack[m] :
        /\ p # markerPose[m]
        /\ markerPose' = [markerPose EXCEPT ![m] = p]
        /\ calls' = 0
        /\ UNCHANGED <<vehicleInWorld, vehiclePose, vehicleModel, gates, twin, matched, retreated>>

\* The vehicle model is inserted into the world, at vehiclePose.
InsertVehicle ==
    /\ ~vehicleInWorld
    /\ vehicleInWorld' = TRUE
    /\ calls' = 0
    /\ UNCHANGED <<markerPose, vehiclePose, vehicleModel, gates, twin, matched, retreated>>

\* The world moves the vehicle model, along one axis at a time.
MoveVehicle ==
    /\ vehicleInWorld
    /\ \E p \in VehiclePositions :
        /\ p # vehiclePose
        /\ \/ p.y = vehiclePose.y /\ p.z = vehiclePose.z
           \/ p.x = vehiclePose.x /\ p.z = vehiclePose.z
           \/ p.x = vehiclePose.x /\ p.y = vehiclePose.y
        /\ vehiclePose' = p
    /\ calls' = 0
    /\ UNCHANGED <<markerPose, vehicleInWorld, vehicleModel, gates, twin, matched, retreated>>

\* A sequence of classifications of one gate in consecutive Update calls.
Pattern == <<VEHICLE_BEFORE, VEHICLE_OUTSIDE, VEHICLE_BEFORE, VEHICLE_AFTER>>

\* The latest classifications of a gate being the first k of Pattern, and
\* the next one being c: the most elements of Pattern then matched.
Match(k, c) ==
    LET fits(n) == /\ Pattern[n] = c
                   /\ \A j \in 1..(n - 1) : Pattern[j] = Pattern[k - (n - 1) + j]
        ns == {n \in 1..(k + 1) : n <= Len(Pattern) /\ fits(n)}
    IN  IF ns = {} THEN 0 ELSE CHOOSE n \in ns : \A o \in ns : o <= n

\* Another sequence of classifications of one gate in consecutive Update
\* calls.
Retreat == <<VEHICLE_AFTER, VEHICLE_OUTSIDE, VEHICLE_BEFORE>>

\* The latest classifications of a gate being the first k of Retreat, and the
\* next one being c: the most elements of Retreat then matched.
RetreatMatch(k, c) ==
    IF c = Retreat[1] THEN 1
    ELSE IF k = 1 /\ c = Retreat[2] THEN 2
    ELSE IF k = 2 /\ c = Retreat[3] THEN 3
    ELSE 0

\* The value IsPoseInGate returns for gate i in an Update call made now.
Classification(i) ==
    IsPoseInGate(GateUpdate(gates[i], markerPose), vehiclePose)

\* An Update call made now gets past the vehicle lookup.
VehicleFound == vehicleModel \/ vehicleInWorld

\* The world update begins: the Update callback of each plugin instance runs.
Update ==
    /\ LET p == PluginUpdate([vehicleModel |-> vehicleModel, gates |-> gates],
                             markerPose, vehicleInWorld, vehiclePose)
       IN  /\ vehicleModel' = p.vehicleModel
           /\ gates' = p.gates
    /\ twin' = PluginUpdate(twin, markerPose, vehicleInWorld, vehiclePose)
    /\ calls' = IF calls < 2 THEN calls + 1 ELSE calls
    /\ matched' = [i \in DOMAIN matched |->
                      IF VehicleFound /\ ~Ignored(gates[i])
                      THEN Match(matched[i], Classification(i))
                      ELSE matched[i]]
    /\ retreated' = [i \in DOMAIN retreated |->
                        IF VehicleFound /\ ~Ignored(gates[i])
                        THEN RetreatMatch(retreated[i], Classification(i))
                        ELSE retreated[i]]
    /\ UNCHANGED <<markerPose, vehicleInWorld, vehiclePose>>

Next == MoveMarker \/ InsertVehicle \/ MoveVehicle \/ Update

Spec == Init /\ [][Next]_vars

\* ----------------------------------------------------------------- claims

\* CROSSED and INVALID, the two states a gate does not leave.
Terminal(state) == state = CROSSED \/ state = INVALID

\* A step that is an Update call with a vehicle pose to evaluate.  (Update
\* leaves calls positive and every other action leaves it zero; that is
\* tested first, so that Update is evaluated on Update steps only.)
VehiclePoseUpdate == VehicleFound /\ calls' >= 1 /\ Update

\* C1: in a vehicle-pose update, a gate that is in state VEHICLE_BEFORE and
\* whose refreshed geometry classifies the vehicle's pose as VEHICLE_AFTER is
\* in state CROSSED after the update.
C1_BeforeAfterCrossed ==
    [][\A i \in DOMAIN gates :
          (/\ gates[i].state = VEHICLE_BEFORE
           /\ Classification(i) = VEHICLE_AFTER
           /\ VehiclePoseUpdate)
          => gates'[i].state = CROSSED]_vars

\* A gate is CROSSED right after an Update call that classified the vehicle
\* as VEHICLE_AFTER while the other gate has not been crossed.
C1_Witness ==
    \E i \in DOMAIN gates :
        /\ calls = 1
        /\ gates[i].state = CROSSED
        /\ matched[i] = 0
        /\ Classification(i) = VEHICLE_AFTER

\* C2: in a vehicle-pose update, a gate that is in state VEHICLE_AFTER and
\* whose classification of the vehicle's pose is VEHICLE_BEFORE is INVALID
\* after the update; and a gate that is INVALID is INVALID after every step.
C2_AfterBeforeInvalid ==
    [][\A i \in DOMAIN gates :
          /\ (/\ gates[i].state = VEHICLE_AFTER
              /\ Classification(i) = VEHICLE_BEFORE
              /\ VehiclePoseUpdate)
             => gates'[i].state = INVALID
          /\ gates[i].state = INVALID => gates'[i].state = INVALID]_vars

\* A gate is INVALID after two Update calls on a world in which it would be
\* classified VEHICLE_AFTER: it was INVALID before them and has stayed so.
C2_Witness ==
    \E i \in DOMAIN gates :
        /\ calls = 2
        /\ gates[i].state = INVALID
        /\ Classification(i) = VEHICLE_AFTER

\* C3: a gate whose state is CROSSED or INVALID has exactly that state after
\* every step, whatever the vehicle pose and the marker positions.
C3_TerminalAbsorbing ==
    [][\A i \in DOMAIN gates :
          Terminal(gates[i].state) => gates'[i].state = gates[i].state]_vars

\* One gate is CROSSED and the other INVALID after an Update call on a world
\* in which the CROSSED one would be classified VEHICLE_BEFORE and the
\* INVALID one VEHICLE_AFTER.
C3_Witness ==
    \E i, j \in DOMAIN gates :
        /\ calls >= 1
        /\ gates[i].state = CROSSED
        /\ Classification(i) = VEHICLE_BEFORE
        /\ gates[j].state = INVALID
        /\ Classification(j) = VEHICLE_AFTER

\* C4: a gate whose state is CROSSED or INVALID keeps its pose and width in
\* every step, and the pose and width it has when it becomes CROSSED or
\* INVALID are those computed from the markers in that update.
C4_TerminalGeometryFrozen ==
    [][\A i \in DOMAIN gates :
          /\ Terminal(gates[i].state)
             => /\ gates'[i].pose = gates[i].pose
                /\ gates'[i].width = gates[i].width
          /\ (~Terminal(gates[i].state) /\ Terminal(gates'[i].state))
             => /\ gates'[i].pose = GateUpdate(gates[i], markerPose).pose
                /\ gates'[i].width = GateUpdate(gates[i], markerPose).width]_vars

\* A CROSSED or INVALID gate after an Update call on a world whose markers
\* would give it another pose and another width.
C4_Witness ==
    \E i \in DOMAIN gates :
        /\ calls >= 1
        /\ Terminal(gates[i].state)
        /\ gates[i].pose # GateUpdate(gates[i], markerPose).pose
        /\ gates[i].width # GateUpdate(gates[i], markerPose).width

\* C5, as claimed: a gate becomes CROSSED in a step only if every gate
\* before it in the course is CROSSED (at the latest after that same step).
C5_CrossedInCourseOrder ==
    [][\A i \in DOMAIN gates :
          (gates[i].state # CROSSED /\ gates'[i].state = CROSSED)
          => \A j \in 1..(i - 1) : gates'[j].state = CROSSED]_vars

\* C5, amended: a gate becomes CROSSED in a step only if the step is a
\* vehicle-pose update, the gate itself is in state VEHICLE_BEFORE and its
\* refreshed geometry classifies the vehicle's pose as VEHICLE_AFTER; the
\* gates before it in the course need not be CROSSED.
C5_CrossedOnOwnEdge ==
    [][\A i \in DOMAIN gates :
          (gates[i].state # CROSSED /\ gates'[i].state = CROSSED)
          => /\ gates[i].state = VEHICLE_BEFORE
             /\ Classification(i) = VEHICLE_AFTER
             /\ VehiclePoseUpdate]_vars

\* The second gate of the course is CROSSED right after an Update call, and
\* the first gate is not: it is still on its approach side.
C5_Witness ==
    /\ calls = 1
    /\ gates[2].state = CROSSED
    /\ Classification(2) = VEHICLE_AFTER
    /\ gates[1].state = VEHICLE_BEFORE

\* Two gates with the same state, pose and width.
SameGate(a, b) == a.state = b.state /\ a.pose = b.pose /\ a.width = b.width

\* C6: a gate's state, pose and width depend only on its own markers and on
\* the vehicle poses: in the two plugin instances, which list each gate at
\* another place of the course and among other gates, every gate of Course
\* has the same state, pose and width.
C6_GatesIndependent ==
    \A i \in DOMAIN gates : \A j \in DOMAIN twin.gates :
        (/\ twin.gates[j].leftMarkerModel = gates[i].leftMarkerModel
         /\ twin.gates[j].rightMarkerModel = gates[i].rightMarkerModel)
        => SameGate(gates[i], twin.gates[j])

\* After an Update call the second gate of Course is CROSSED in both
\* instances, while the gate before it is VEHICLE_BEFORE in one instance and
\* there is no gate before it in the other, where the gate after it is
\* INVALID.
C6_Witness ==
    /\ calls >= 1
    /\ gates[2].state = CROSSED
    /\ twin.gates[1].state = CROSSED
    /\ gates[1].state = VEHICLE_BEFORE
    /\ twin.gates[2].state = INVALID

\* The vehicle position p in the frame of a gate, from the gate's pose: the
\* components of p - pos along the gate's forward axis (cos, sin) and along
\* its lateral axis (-sin, cos), both scaled by the length of (cos, sin).
RefLocalX(gate, p) ==
    (p.x - gate.pose.pos.x) * gate.pose.rot.cos
    + (p.y - gate.pose.pos.y) * gate.pose.rot.sin

RefLocalY(gate, p) ==
    (p.y - gate.pose.pos.y) * gate.pose.rot.cos
    - (p.x - gate.pose.pos.x) * gate.pose.rot.sin

\* |localY| > width / 2, on the scaled values.
RefOutside(gate, p) ==
    LET localY == RefLocalY(gate, p)
    IN  4 * localY * localY
        > gate.width * (gate.pose.rot.cos * gate.pose.rot.cos
                        + gate.pose.rot.sin * gate.pose.rot.sin)

\* The gates of both plugin instances.
AllGates ==
    {gates[i] : i \in DOMAIN gates} \cup {twin.gates[j] : j \in DOMAIN twin.gates}

\* C7: for the pose and width of every gate and the position of the
\* vehicle, in every state, IsPoseInGate is VEHICLE_OUTSIDE iff
\* |localY| > width / 2, otherwise VEHICLE_AFTER iff localX >= 0, otherwise
\* VEHICLE_BEFORE; and it is the same for the vehicle at another altitude.
C7_ClassificationRule ==
    \A gate \in AllGates :
        LET c == IsPoseInGate(gate, vehiclePose)
            outside == RefOutside(gate, vehiclePose)
            localX == RefLocalX(gate, vehiclePose)
        IN  /\ c = VEHICLE_OUTSIDE <=> outside
            /\ c = VEHICLE_AFTER <=> (~outside /\ localX >= 0)
            /\ c = VEHICLE_BEFORE <=> (~outside /\ localX < 0)
            /\ \A z \in Altitudes :
                  IsPoseInGate(gate, [vehiclePose EXCEPT !.z = z]) = c

\* After an Update call a gate of positive width is VEHICLE_AFTER with the
\* vehicle, above the ground, exactly on the gate plane (localX = 0) and
\* exactly at half the width (|localY| = width / 2).
C7_Witness ==
    \E i \in DOMAIN gates :
        /\ calls >= 1
        /\ vehicleModel
        /\ gates[i].state = VEHICLE_AFTER
        /\ gates[i] = GateUpdate(gates[i], markerPose)
        /\ gates[i].width > 0
        /\ vehiclePose.z # 0
        /\ RefLocalX(gates[i], vehiclePose) = 0
        /\ 4 * RefLocalY(gates[i], vehiclePose) * RefLocalY(gates[i], vehiclePose)
           = gates[i].width * (gates[i].pose.rot.cos * gates[i].pose.rot.cos
                               + gates[i].pose.rot.sin * gates[i].pose.rot.sin)

\* C8: in a vehicle-pose update, a gate that is not CROSSED or INVALID and
\* whose state and classification are neither (VEHICLE_BEFORE, VEHICLE_AFTER)
\* nor (VEHICLE_AFTER, VEHICLE_BEFORE) has the classification as its state
\* after the update.
C8_StateTracksClassification ==
    [][\A i \in DOMAIN gates :
          (/\ VehiclePoseUpdate
           /\ ~Terminal(gates[i].state)
           /\ ~(/\ gates[i].state = VEHICLE_BEFORE
                /\ Classification(i) = VEHICLE_AFTER)
           /\ ~(/\ gates[i].state = VEHICLE_AFTER
                /\ Classification(i) = VEHICLE_BEFORE))
          => gates'[i].state = Classification(i)]_vars

\* Right after an Update call a gate is VEHICLE_BEFORE, having been
\* VEHICLE_OUTSIDE before it (its latest classifications are BEFORE, OUTSIDE,
\* BEFORE).
C8_Witness ==
    \E i \in DOMAIN gates :
        /\ calls = 1
        /\ gates[i].state = VEHICLE_BEFORE
        /\ matched[i] = 3

\* C9: a gate whose classifications in consecutive updates are BEFORE,
\* OUTSIDE, BEFORE, AFTER is CROSSED; and in a vehicle-pose update, a gate
\* that is not CROSSED or INVALID, whose classification in the update before
\* was VEHICLE_BEFORE (with or without VEHICLE_OUTSIDE before that) and is
\* VEHICLE_AFTER now, is CROSSED after the update.
C9_OutsideDoesNotBlock ==
    /\ [](\A i \in DOMAIN gates :
             matched[i] = Len(Pattern) => gates[i].state = CROSSED)
    /\ [][\A i \in DOMAIN gates :
             (/\ ~Terminal(gates[i].state)
              /\ matched[i] \in {1, 3}
              /\ Classification(i) = VEHICLE_AFTER
              /\ VehiclePoseUpdate)
             => gates'[i].state = CROSSED]_vars

\* Right after the Update call that classified it VEHICLE_AFTER, a gate has
\* been classified BEFORE, OUTSIDE, BEFORE, AFTER and is CROSSED.
C9_Witness ==
    \E i \in DOMAIN gates :
        /\ calls = 1
        /\ matched[i] = Len(Pattern)
        /\ Classification(i) = VEHICLE_AFTER
        /\ gates[i].state = CROSSED

\* C10: an Update call that follows an Update call, with no change of the
\* vehicle's pose or of a marker's position in between, leaves every gate's
\* state, pose and width as they are.
C10_UpdateIdempotent ==
    [][(calls >= 1 /\ Update) => gates' = gates]_vars

\* After two Update calls on the same world, with the vehicle found, one gate
\* is CROSSED and the other is INVALID, VEHICLE_AFTER or VEHICLE_OUTSIDE.
C10_Witness ==
    /\ calls = 2
    /\ vehicleModel
    /\ \E i, j \in DOMAIN gates :
          /\ gates[i].state = CROSSED
          /\ gates[j].state \in {INVALID, VEHICLE_AFTER, VEHICLE_OUTSIDE}

\* The positions of the left and right markers of a gate.
LeftMarker(gate) == markerPose[gate.leftMarkerModel]

RightMarker(gate) == markerPose[gate.rightMarkerModel]

\* The square of the distance between two points.
RefDistance2(a, b) ==
    (a.x - b.x) * (a.x - b.x) + (a.y - b.y) * (a.y - b.y)
    + (a.z - b.z) * (a.z - b.z)

\* C11: after a vehicle-pose update, every gate that was not CROSSED or
\* INVALID before it has the midpoint of its markers' positions as its pose
\* position and the distance between them as its width, which is not
\* negative.
C11_LiveGeometryRefreshed ==
    [][\A i \in DOMAIN gates :
          (~Terminal(gates[i].state) /\ VehiclePoseUpdate)
          => LET L == LeftMarker(gates[i])
                 R == RightMarker(gates[i])
                 pos == gates'[i].pose.pos
             IN  /\ 2 * pos.x = L.x + R.x
                 /\ 2 * pos.y = L.y + R.y
                 /\ 2 * pos.z = L.z + R.z
                 /\ gates'[i].width = RefDistance2(L, R)
                 /\ gates'[i].width >= 0]_vars

\* Right after an Update call with a vehicle, a live gate whose markers are
\* one above the other has their distance as its width and a pose position
\* above the ground.
C11_Witness ==
    \E i \in DOMAIN gates :
        /\ calls = 1
        /\ vehicleModel
        /\ ~Terminal(gates[i].state)
        /\ LeftMarker(gates[i]).z # RightMarker(gates[i]).z
        /\ LeftMarker(gates[i]).x = RightMarker(gates[i]).x
        /\ gates[i].width = RefDistance2(LeftMarker(gates[i]), RightMarker(gates[i]))
        /\ gates[i].pose.pos.z # 0

\* C12: for the two markers of any gate of the world, when at distinct
\* positions, the gate made with them as left and right markers and the gate
\* made with them as right and left markers have the same width and the same
\* pose position, and orientations that differ by exactly 180 degrees
\* (opposite cosine and opposite sine).
C12_SwapSymmetry ==
    \A j \in DOMAIN TwinCourse :
        LET a == TwinCourse[j].left_marker
            b == TwinCourse[j].right_marker
        IN  markerPose[a] # markerPose[b]
        => LET gate == Gate(a, b, markerPose)
               swapped == Gate(b, a, markerPose)
           IN  /\ swapped.width = gate.width
               /\ swapped.pose.pos = gate.pose.pos
               /\ swapped.pose.rot.cos = -gate.pose.rot.cos
               /\ swapped.pose.rot.sin = -gate.pose.rot.sin

\* After an Update call with a vehicle, the first gate of the course has its
\* markers apart on the ground, and the second, still live, has its markers
\* one above the other with an orientation of 0, where the gate with the
\* markers swapped has an orientation of 180 degrees.
C12_Witness ==
    /\ calls >= 1
    /\ vehicleModel
    /\ LeftMarker(gates[1]) # RightMarker(gates[1])
    /\ ~Terminal(gates[2].state)
    /\ LeftMarker(gates[2]).z > RightMarker(gates[2]).z
    /\ LeftMarker(gates[2]).x = RightMarker(gates[2]).x
    /\ LeftMarker(gates[2]).y = RightMarker(gates[2]).y
    /\ gates[2].pose.rot = [cos |-> 1, sin |-> 0]
    /\ Gate(gates[2].rightMarkerModel, gates[2].leftMarkerModel, markerPose).pose.rot
       = [cos |-> -1, sin |-> 0]

\* The unit vector from the left marker of a gate to its right marker, turned
\* by 90 degrees about the vertical axis.
RefLeftToRightTurned(gate) ==
    Cross(UnitZ, Normalize(Minus(RightMarker(gate), LeftMarker(gate))))

\* C13: after an Update call with a vehicle, every live gate whose markers
\* are apart in the horizontal plane has as its orientation (its local +X
\* axis) the direction of the unit vector from its left marker to its right
\* marker turned by 90 degrees about the vertical axis, and the point one
\* such vector ahead of the gate's middle is classified VEHICLE_AFTER.
C13_ForwardIsLeftToRightTurned ==
    \A i \in DOMAIN gates :
        (/\ calls >= 1
         /\ vehicleModel
         /\ ~Terminal(gates[i].state)
         /\ \/ LeftMarker(gates[i]).x # RightMarker(gates[i]).x
            \/ LeftMarker(gates[i]).y # RightMarker(gates[i]).y)
        => LET forward == RefLeftToRightTurned(gates[i])
           IN  /\ gates[i].pose.rot = Atan2(forward.y, forward.x)
               /\ IsPoseInGate(gates[i], Plus(gates[i].pose.pos, forward))
                  = VEHICLE_AFTER

\* C14: in an Update call with a vehicle, a live gate whose two markers are
\* at the same position classifies the vehicle's pose as VEHICLE_OUTSIDE,
\* whatever that pose is, and is in state VEHICLE_OUTSIDE after the call, so
\* never CROSSED or INVALID.
C14_CoincidentMarkersOutside ==
    [][\A i \in DOMAIN gates :
          (/\ ~Terminal(gates[i].state)
           /\ LeftMarker(gates[i]) = RightMarker(gates[i])
           /\ VehiclePoseUpdate)
          => /\ Classification(i) = VEHICLE_OUTSIDE
             /\ gates'[i].state = VEHICLE_OUTSIDE]_vars

\* C15: in the first Update call that has a vehicle pose, every gate's state
\* becomes the classification of that pose against the gate's refreshed
\* geometry (VEHICLE_BEFORE, VEHICLE_AFTER or VEHICLE_OUTSIDE), and no gate
\* is CROSSED or INVALID after the call.
C15_FirstUpdateInitialises ==
    [][(~vehicleModel /\ VehiclePoseUpdate)
       => \A i \in DOMAIN gates :
             /\ gates'[i].state = Classification(i)
             /\ gates'[i].state
                \in {VEHICLE_BEFORE, VEHICLE_AFTER, VEHICLE_OUTSIDE}]_vars

\* Right after an Update call with a vehicle and before any other call, the
\* first gate of the course is in state VEHICLE_BEFORE and the second in
\* state VEHICLE_AFTER, each the classification of the vehicle's pose.
C15_Witness ==
    /\ calls = 1
    /\ vehicleModel
    /\ matched = <<1, 0>>
    /\ gates[1].state = VEHICLE_BEFORE
    /\ gates[2].state = VEHICLE_AFTER
    /\ \A i \in DOMAIN gates : gates[i].state = IsPoseInGate(gates[i], vehiclePose)

\* C16: a gate becomes CROSSED only in an Update call with a vehicle in which
\* its state is VEHICLE_BEFORE and its classification VEHICLE_AFTER, and
\* becomes INVALID only in one in which its state is VEHICLE_AFTER and its
\* classification VEHICLE_BEFORE.  A gate last classified VEHICLE_BEFORE and
\* then VEHICLE_OUTSIDE that is now classified VEHICLE_AFTER is left in state
\* VEHICLE_AFTER, and a gate last classified VEHICLE_AFTER and then
\* VEHICLE_OUTSIDE that is now classified VEHICLE_BEFORE is left in state
\* VEHICLE_BEFORE.
C16_TerminalOnlyByDirectEdge ==
    /\ [](\A i \in DOMAIN gates :
             retreated[i] = Len(Retreat) => gates[i].state = VEHICLE_BEFORE)
    /\ [][\A i \in DOMAIN gates :
             /\ (gates[i].state # CROSSED /\ gates'[i].state = CROSSED)
                => /\ gates[i].state = VEHICLE_BEFORE
                   /\ VehiclePoseUpdate
                   /\ Classification(i) = VEHICLE_AFTER
             /\ (gates[i].state # INVALID /\ gates'[i].state = INVALID)
                => /\ gates[i].state = VEHICLE_AFTER
                   /\ VehiclePoseUpdate
                   /\ Classification(i) = VEHICLE_BEFORE
             /\ (/\ matched[i] = 2
                 /\ Classification(i) = VEHICLE_AFTER
                 /\ VehiclePoseUpdate)
                => gates'[i].state = VEHICLE_AFTER]_vars

\* Right after the Update call that classified it VEHICLE_BEFORE, a gate has
\* been classified AFTER, OUTSIDE, BEFORE and is in state VEHICLE_BEFORE.
C16_Witness ==
    \E i \in DOMAIN gates :
        /\ calls = 1
        /\ retreated[i] = Len(Retreat)
        /\ Classification(i) = VEHICLE_BEFORE
        /\ gates[i].state = VEHICLE_BEFORE

\* C17: an Update call in which the vehicle model is not found leaves every
\* gate's state, pose and width and the plugin's vehicle model as they are;
\* and in the first call in which the vehicle is found the live gates are
\* evaluated: each gets its refreshed geometry and its classification.
C17_NoVehicleNoChange ==
    [][/\ (~VehicleFound /\ calls' >= 1 /\ Update)
          => gates' = gates /\ vehicleModel' = vehicleModel
       /\ (~vehicleModel /\ VehiclePoseUpdate)
          => /\ vehicleModel'
             /\ \A i \in DOMAIN gates :
                   /\ gates'[i].pose = GateUpdate(gates[i], markerPose).pose
                   /\ gates'[i].width = GateUpdate(gates[i], markerPose).width
                   /\ gates'[i].state = Classification(i)]_vars

\* After an Update call without a vehicle, a gate still has the pose it was
\* constructed with although a marker has moved since: its pose position is
\* not the midpoint of its markers.
C17_Witness ==
    \E i \in DOMAIN gates :
        /\ calls >= 1
        /\ ~vehicleModel
        /\ ~vehicleInWorld
        /\ gates[i].state = InitialState
        /\ LET L == LeftMarker(gates[i])
               R == RightMarker(gates[i])
           IN  \/ 2 * gates[i].pose.pos.x # L.x + R.x
               \/ 2 * gates[i].pose.pos.y # L.y + R.y
               \/ 2 * gates[i].pose.pos.z # L.z + R.z

\* The classification of position p by the gate made of markers a and b is
\* mirrored by the gate made of b and a.
SwapMirrors(a, b, p) ==
    LET gate == Gate(a, b, markerPose)
        swapped == Gate(b, a, markerPose)
        c == IsPoseInGate(gate, p)
        d == IsPoseInGate(swapped, p)
    IN  /\ c = VEHICLE_OUTSIDE => d = VEHICLE_OUTSIDE
        /\ c = VEHICLE_BEFORE => d = VEHICLE_AFTER
        /\ (c = VEHICLE_AFTER /\ RobotLocalPosition(gate, p).x > 0)
           => d = VEHICLE_BEFORE

\* C18: for the two markers of any gate of the world, the gate made with them
\* as right and left markers classifies the vehicle's position as
\* VEHICLE_OUTSIDE where the gate made with them as left and right markers
\* classifies it as VEHICLE_OUTSIDE, as VEHICLE_AFTER where that one
\* classifies it as VEHICLE_BEFORE, and as VEHICLE_BEFORE where that one
\* classifies it as VEHICLE_AFTER with a positive local x.
C18_SwapMirrorsClassification ==
    \A j \in DOMAIN TwinCourse :
        SwapMirrors(TwinCourse[j].left_marker, TwinCourse[j].right_marker,
                    vehiclePose)

\* The mirror relation of C18 for the gates whose two markers are at distinct
\* positions.
SwapMirrorsApart ==
    \A j \in DOMAIN TwinCourse :
        LET a == TwinCourse[j].left_marker
            b == TwinCourse[j].right_marker
        IN  markerPose[a] # markerPose[b] => SwapMirrors(a, b, vehiclePose)

\* A gate in state VEHICLE_BEFORE whose stored geometry classifies the
\* vehicle's position as VEHICLE_BEFORE, and whose markers have moved so that
\* the refreshed geometry classifies the same position as VEHICLE_AFTER: the
\* next Update call makes it CROSSED with the vehicle where it was.
C18_Witness ==
    \E i \in DOMAIN gates :
        /\ calls = 0
        /\ vehicleModel
        /\ gates[i].state = VEHICLE_BEFORE
        /\ IsPoseInGate(gates[i], vehiclePose) = VEHICLE_BEFORE
        /\ Classification(i) = VEHICLE_AFTER
        /\ gates[i].width = GateUpdate(gates[i], markerPose).width
        /\ gates[i].pose.rot.cos = -GateUpdate(gates[i], markerPose).pose.rot.cos
        /\ gates[i].pose.rot.sin = -GateUpdate(gates[i], markerPose).pose.rot.sin

====
